---- MODULE Spec2Model ----
(***************************************************************************)
(* Model of the chat page component Home (frontend/app/page.tsx): the      *)
(* conversation identity resolver, the history loader, the live WebSocket  *)
(* session and the outbound dispatcher, as run by React with production    *)
(* effect semantics (each effect runs once per change of its dependency    *)
(* list, cleanups of a commit run before its effects).                     *)
(* Strings the code inspects (stored identifier, input text, frames) are   *)
(* sequences of one-character strings.                                     *)
(***************************************************************************)
EXTENDS Integers, Sequences, FiniteSets, TLC

\* ------------------------------------------------------------------ bounds
MaxFrames == 2      \* inbound frames delivered in one session
MaxSends == 2       \* frames transmitted in one session
MaxHist == 2        \* records in a history response

\* -------------------------------------------------------- value encodings
NULL == -1          \* JavaScript null (number | null state, ref to no socket)
NaN == -2           \* result of parseInt on a string without leading digits

DigitChars == <<"0", "1", "2", "3", "4", "5", "6", "7", "8", "9">>
WhiteSpace == {" ", "\t", "\n"}

\* identifiers the remote service may assign
Ids == {0, 12}

\* localStorage.getItem result: has = FALSE is null
NoItem == [has |-> FALSE, val |-> <<>>]
Item(s) == [has |-> TRUE, val |-> s]

\* ---------------------------------------------------------- pure functions
RECURSIVE ToStr(_)
\* String(newId) for a non-negative integer
ToStr(n) ==
    IF n < 10 THEN <<DigitChars[n + 1]>>
    ELSE ToStr(n \div 10) \o <<DigitChars[(n % 10) + 1]>>

IsDigit(c) == \E d \in 1..10 : DigitChars[d] = c
DigitVal(c) == (CHOOSE d \in 1..10 : DigitChars[d] = c) - 1

RECURSIVE SkipLeadingWs(_)
SkipLeadingWs(s) ==
    IF s # <<>> /\ Head(s) \in WhiteSpace THEN SkipLeadingWs(Tail(s)) ELSE s

RECURSIVE SkipTrailingWs(_)
SkipTrailingWs(s) ==
    IF s # <<>> /\ s[Len(s)] \in WhiteSpace
    THEN SkipTrailingWs(SubSeq(s, 1, Len(s) - 1))
    ELSE s

\* variant of trim that strips leading white space only (trimStart)
TrimStartOnly(s) == SkipLeadingWs(s)

\* String.prototype.trim
Trim(s) == SkipTrailingWs(SkipLeadingWs(s))

RECURSIVE ParseDigits(_, _)
\* value of the longest digit prefix of s, acc being the value read so far
ParseDigits(s, acc) ==
    IF s # <<>> /\ IsDigit(Head(s))
    THEN ParseDigits(Tail(s), acc * 10 + DigitVal(Head(s)))
    ELSE acc

\* parseInt(s, 10) on unsigned input: leading white space is skipped, the
\* longest digit prefix is read, no digit at all gives NaN
ParseInt(s) ==
    LET t == SkipLeadingWs(s)
    IN  IF t # <<>> /\ IsDigit(Head(t)) THEN ParseDigits(t, 0) ELSE NaN

\* JavaScript truthiness of a string | null
Truthy(item) == item.has /\ item.val # <<>>

\* ------------------------------------------------------------ input sets
InputTexts == { <<>>, <<" ", "\t">>, <<" ", "a", " ", "b", "\n">> }
FrameTexts == { <<" ", "y">>, <<>> }

\* the i-th record of the conversation the server returns as history
HistSender(i) == IF i % 3 = 1 THEN "user" ELSE IF i % 3 = 2 THEN "assistant" ELSE "USER"
HistRecord(i) == [id |-> i, sender |-> HistSender(i), content |-> IF i % 2 = 1 THEN <<"h", "i">> ELSE <<"o", "k">>]
HistRange == 0..MaxHist
ServerMsgs(k) == [i \in 1..k |-> HistRecord(i)]

VARIABLES
    phase,           \* "init" (rendered, effects not yet run), "mounted", "unmounted"
    storage,         \* localStorage entry "conversationId"
    conversationId,  \* useState<number | null>
    messages,        \* useState<Message[]>
    input,           \* useState("")
    sockets,         \* every WebSocket object created, in creation order
    socketRef,       \* socketRef.current: index into sockets, NULL for null
    effectId,        \* conversationId the effects of lines 43-93 last ran with
    cleanupSock,     \* socket the pending cleanup of the live session effect closes, NULL for none
    createReqs,      \* POST /conversations/new requests issued
    historyReqs,     \* GET /conversations/{id}/messages requests issued, with the response body once it arrived
    framesIn,        \* frames received on the connection so far, in order
    startId,         \* identifier cached in storage when the session began, NULL for none
    lastOp           \* outcome of the last callback if it was a dispatch (sendMessage), "other" if not

vars == <<phase, storage, conversationId, messages, input, sockets, socketRef,
          effectId, cleanupSock, createReqs, historyReqs, framesIn, startId, lastOp>>


\* ------------------------------------------------------------------- Init
\* state after the first render of Home: useState initial values, no effect
\* has run yet; storage holds either nothing or String(id) of an earlier session
Init ==
    /\ startId \in Ids \cup {NULL}
    /\ storage = IF startId = NULL THEN NoItem ELSE Item(ToStr(startId))
    /\ phase = "init"
    /\ conversationId = NULL
    /\ messages = <<>>
    /\ input = <<>>
    /\ sockets = <<>>
    /\ socketRef = NULL
    /\ effectId = NULL
    /\ cleanupSock = NULL
    /\ createReqs = <<>>
    /\ historyReqs = <<>>
    /\ framesIn = <<>>
    /\ lastOp = "other"

\* --------------------------------------------------------------- messages
\* { sender: "bot", content: event.data }
BotMsg(data) == [sender |-> "bot", content |-> data]

\* { sender: "user", content: text }
UserMsg(text) == [sender |-> "user", content |-> text]

\* variant of the history mapping that keeps the server's sender string
LoadHistoryRawSender(msgs) ==
    [i \in 1..Len(msgs) |->
        [id |-> msgs[i].id, sender |-> msgs[i].sender, content |-> msgs[i].content]]

\* msgs.map((m) => ({ id: m.id, sender: m.sender === "user" ? "user" : "bot", content: m.content }))
LoadHistory(msgs) ==
    [i \in 1..Len(msgs) |->
        [id |-> msgs[i].id,
         sender |-> IF msgs[i].sender = "user" THEN "user" ELSE "bot",
         content |-> msgs[i].content]]

\* ---------------------------------------------------------------- sockets
\* new WebSocket(wsUrl): the url carries the conversation id
NewSocket(cid) == [convId |-> cid, readyState |-> "CONNECTING", sent |-> <<>>]

\* ws.close(): a socket that is connecting or open starts closing
CloseSocket(sock) ==
    IF sock.readyState \in {"CONNECTING", "OPEN"}
    THEN [sock EXCEPT !.readyState = "CLOSING"]
    ELSE sock

\* variant of the cleanup that does not close the socket
RunCleanupNoClose(socks) == socks

\* the cleanup returned by the live session effect, applied to the sockets
RunCleanup(socks) ==
    IF cleanupSock = NULL THEN socks
    ELSE [socks EXCEPT ![cleanupSock] = CloseSocket(@)]

\* ---------------------------------------------------------------- effects
\* variant of the identity resolver effect that ignores the cached identifier
\* and issues the creation request anyway
IdentityEffectNoCacheCheck ==
    /\ createReqs' = Append(createReqs, [status |-> "pending", id |-> NULL])
    /\ conversationId' = IF Truthy(storage) THEN ParseInt(storage.val) ELSE conversationId

\* identity resolver effect, deps [baseUrl]: runs once, on mount
IdentityEffect ==
    IF Truthy(storage)
    THEN /\ conversationId' = ParseInt(storage.val)
         /\ UNCHANGED createReqs
    ELSE /\ createReqs' = Append(createReqs, [status |-> "pending", id |-> NULL])
         /\ UNCHANGED conversationId

\* variant of the history loader effect without the null check
HistoryEffectNoGuard(cid) ==
    historyReqs' = Append(historyReqs, [id |-> cid, status |-> "pending", msgs |-> <<>>])

\* history loader effect, deps [conversationId, baseUrl]
HistoryEffect(cid) ==
    historyReqs' = IF cid = NULL THEN historyReqs
                   ELSE Append(historyReqs, [id |-> cid, status |-> "pending", msgs |-> <<>>])

\* live session effect, deps [conversationId, baseUrl]; socks are the sockets
\* after the cleanups of this commit
LiveEffect(cid, socks) ==
    IF cid = NULL
    THEN /\ sockets' = socks
         /\ cleanupSock' = NULL
         /\ UNCHANGED socketRef
    ELSE /\ sockets' = Append(socks, NewSocket(cid))
         /\ socketRef' = Len(socks) + 1
         /\ cleanupSock' = Len(socks) + 1

\* first commit: the three effects run in source order with the values of the
\* first render (conversationId is null there)
Mount ==
    /\ phase = "init"
    /\ phase' = "mounted"
    /\ IdentityEffect
    /\ HistoryEffect(conversationId)
    /\ LiveEffect(conversationId, sockets)
    /\ effectId' = conversationId
    /\ storage' = storage
    /\ lastOp' = "other"
    /\ UNCHANGED <<messages, input, framesIn, startId>>

\* a commit after conversationId changed: the cleanup of the live session
\* effect, then the history loader effect, then the live session effect
Rerender ==
    /\ phase = "mounted"
    /\ conversationId # effectId
    /\ HistoryEffect(conversationId)
    /\ LiveEffect(conversationId, RunCleanup(sockets))
    /\ effectId' = conversationId
    /\ lastOp' = "other"
    /\ UNCHANGED <<phase, storage, conversationId, messages, input, createReqs, framesIn, startId>>

\* the view is dismissed: the pending cleanup closes the socket
Unmount ==
    /\ phase = "mounted"
    /\ phase' = "unmounted"
    /\ sockets' = RunCleanup(sockets)
    /\ cleanupSock' = NULL
    /\ lastOp' = "other"
    /\ UNCHANGED <<storage, conversationId, messages, input, socketRef, effectId,
                   createReqs, historyReqs, framesIn, startId>>


\* ------------------------------------------------- creation request result
\* variant of the creation response handler that resolves the identifier
\* without persisting it
CreateResponseOkNoPersist(r, newId) ==
    /\ r \in 1..Len(createReqs)
    /\ createReqs[r].status = "pending"
    /\ createReqs' = [createReqs EXCEPT ![r] = [status |-> "ok", id |-> newId]]
    /\ conversationId' = IF phase = "mounted" THEN newId ELSE conversationId
    /\ lastOp' = "other"
    /\ UNCHANGED <<phase, storage, messages, input, sockets, socketRef, effectId, cleanupSock,
                   historyReqs, framesIn, startId>>

\* .then((data) => { localStorage.setItem(...); setConversationId(newId) }):
\* the storage write happens whatever the view's state, the state update is
\* dropped once the view is unmounted
CreateResponseOk(r, newId) ==
    /\ r \in 1..Len(createReqs)
    /\ createReqs[r].status = "pending"
    /\ createReqs' = [createReqs EXCEPT ![r] = [status |-> "ok", id |-> newId]]
    /\ storage' = Item(ToStr(newId))
    /\ conversationId' = IF phase = "mounted" THEN newId ELSE conversationId
    /\ lastOp' = "other"
    /\ UNCHANGED <<phase, messages, input, sockets, socketRef, effectId, cleanupSock,
                   historyReqs, framesIn, startId>>

\* variant of the creation failure handler that issues the request again
CreateResponseFailRetry(r) ==
    /\ r \in 1..Len(createReqs)
    /\ createReqs[r].status = "pending"
    /\ Len(createReqs) < 3
    /\ createReqs' = Append([createReqs EXCEPT ![r].status = "failed"],
                            [status |-> "pending", id |-> NULL])
    /\ lastOp' = "other"
    /\ UNCHANGED <<phase, storage, conversationId, messages, input, sockets, socketRef,
                   effectId, cleanupSock, historyReqs, framesIn, startId>>

\* .catch((err) => console.error(...)): transport or decode error
CreateResponseFail(r) ==
    /\ r \in 1..Len(createReqs)
    /\ createReqs[r].status = "pending"
    /\ createReqs' = [createReqs EXCEPT ![r].status = "failed"]
    /\ lastOp' = "other"
    /\ UNCHANGED <<phase, storage, conversationId, messages, input, sockets, socketRef,
                   effectId, cleanupSock, historyReqs, framesIn, startId>>

\* -------------------------------------------------- history request result
\* variant of the history response handler that appends the loaded messages
\* to the log instead of replacing it
HistoryResponseOkAppend(r, k) ==
    /\ r \in 1..Len(historyReqs)
    /\ historyReqs[r].status = "pending"
    /\ historyReqs' = [historyReqs EXCEPT ![r] = [@ EXCEPT !.status = "ok", !.msgs = ServerMsgs(k)]]
    /\ messages' = IF phase = "mounted" THEN messages \o LoadHistory(ServerMsgs(k)) ELSE messages
    /\ lastOp' = "other"
    /\ UNCHANGED <<phase, storage, conversationId, input, sockets, socketRef, effectId,
                   cleanupSock, createReqs, framesIn, startId>>

\* .then((msgs) => { ...; setMessages(loaded) })
HistoryResponseOk(r, k) ==
    /\ r \in 1..Len(historyReqs)
    /\ historyReqs[r].status = "pending"
    /\ historyReqs' = [historyReqs EXCEPT ![r] = [@ EXCEPT !.status = "ok", !.msgs = ServerMsgs(k)]]
    /\ messages' = IF phase = "mounted" THEN LoadHistory(ServerMsgs(k)) ELSE messages
    /\ lastOp' = "other"
    /\ UNCHANGED <<phase, storage, conversationId, input, sockets, socketRef, effectId,
                   cleanupSock, createReqs, framesIn, startId>>

\* variant of the history failure handler that empties the log
HistoryResponseFailClears(r) ==
    /\ r \in 1..Len(historyReqs)
    /\ historyReqs[r].status = "pending"
    /\ historyReqs' = [historyReqs EXCEPT ![r].status = "failed"]
    /\ messages' = <<>>
    /\ lastOp' = "other"
    /\ UNCHANGED <<phase, storage, conversationId, input, sockets, socketRef,
                   effectId, cleanupSock, createReqs, framesIn, startId>>

\* .catch((err) => console.error(...))
HistoryResponseFail(r) ==
    /\ r \in 1..Len(historyReqs)
    /\ historyReqs[r].status = "pending"
    /\ historyReqs' = [historyReqs EXCEPT ![r].status = "failed"]
    /\ lastOp' = "other"
    /\ UNCHANGED <<phase, storage, conversationId, messages, input, sockets, socketRef,
                   effectId, cleanupSock, createReqs, framesIn, startId>>

\* ---------------------------------------------------------- socket events
\* ws.onopen: the handshake succeeded; the handler only logs
WsOpen(i) ==
    /\ i \in 1..Len(sockets)
    /\ sockets[i].readyState = "CONNECTING"
    /\ sockets' = [sockets EXCEPT ![i].readyState = "OPEN"]
    /\ lastOp' = "other"
    /\ UNCHANGED <<phase, storage, conversationId, messages, input, socketRef, effectId,
                   cleanupSock, createReqs, historyReqs, framesIn, startId>>

\* the closing handshake was started by the peer: readyState is CLOSING until
\* the connection is closed; no handler runs
WsClosing(i) ==
    /\ i \in 1..Len(sockets)
    /\ sockets[i].readyState = "OPEN"
    /\ sockets' = [sockets EXCEPT ![i].readyState = "CLOSING"]
    /\ lastOp' = "other"
    /\ UNCHANGED <<phase, storage, conversationId, messages, input, socketRef, effectId,
                   cleanupSock, createReqs, historyReqs, framesIn, startId>>

\* variant of ws.onclose that opens a new socket for the same conversation
\* while the view is mounted
WsClosedReconnect(i) ==
    /\ i \in 1..Len(sockets)
    /\ sockets[i].readyState # "CLOSED"
    /\ IF phase = "mounted" /\ Len(sockets) < 3
       THEN /\ sockets' = Append([sockets EXCEPT ![i].readyState = "CLOSED"],
                                  NewSocket(sockets[i].convId))
            /\ socketRef' = Len(sockets) + 1
            /\ cleanupSock' = Len(sockets) + 1
       ELSE /\ sockets' = [sockets EXCEPT ![i].readyState = "CLOSED"]
            /\ UNCHANGED <<socketRef, cleanupSock>>
    /\ lastOp' = "other"
    /\ UNCHANGED <<phase, storage, conversationId, messages, input, effectId,
                   createReqs, historyReqs, framesIn, startId>>

\* ws.onerror / ws.onclose: transport error, close by the peer, or the end of
\* a closing handshake; the handlers only log
WsClosed(i) ==
    /\ i \in 1..Len(sockets)
    /\ sockets[i].readyState # "CLOSED"
    /\ sockets' = [sockets EXCEPT ![i].readyState = "CLOSED"]
    /\ lastOp' = "other"
    /\ UNCHANGED <<phase, storage, conversationId, messages, input, socketRef, effectId,
                   cleanupSock, createReqs, historyReqs, framesIn, startId>>

\* variant of ws.onmessage that puts the new message in front of the log
OnMessagePrepend(i, data) ==
    /\ i \in 1..Len(sockets)
    /\ sockets[i].readyState = "OPEN"
    /\ Len(framesIn) < MaxFrames
    /\ framesIn' = Append(framesIn, data)
    /\ messages' = IF phase = "mounted" THEN <<BotMsg(data)>> \o messages ELSE messages
    /\ lastOp' = "other"
    /\ UNCHANGED <<phase, storage, conversationId, input, sockets, socketRef, effectId,
                   cleanupSock, createReqs, historyReqs, startId>>

\* ws.onmessage: a frame is dispatched only while the socket is OPEN
OnMessage(i, data) ==
    /\ i \in 1..Len(sockets)
    /\ sockets[i].readyState = "OPEN"
    /\ Len(framesIn) < MaxFrames
    /\ framesIn' = Append(framesIn, data)
    /\ messages' = IF phase = "mounted" THEN Append(messages, BotMsg(data)) ELSE messages
    /\ lastOp' = "other"
    /\ UNCHANGED <<phase, storage, conversationId, input, sockets, socketRef, effectId,
                   cleanupSock, createReqs, historyReqs, startId>>

\* ------------------------------------------------------------- user input
\* onChange={(e) => setInput(e.target.value)}
SetInput(text) ==
    /\ phase = "mounted"
    /\ text # input
    /\ input' = text
    /\ lastOp' = "other"
    /\ UNCHANGED <<phase, storage, conversationId, messages, sockets, socketRef, effectId,
                   cleanupSock, createReqs, historyReqs, framesIn, startId>>

\* frames transmitted on all sockets
RECURSIVE SentCount(_)
SentCount(socks) ==
    IF socks = <<>> THEN 0 ELSE Len(Head(socks).sent) + SentCount(Tail(socks))

\* variant of the connection check that looks at the reference only
ConnectedRefOnly == socketRef # NULL

\* socketRef.current && socketRef.current.readyState === WebSocket.OPEN
Connected == socketRef # NULL /\ sockets[socketRef].readyState = "OPEN"

\* variant of sendMessage without the check for empty text
SendMessageNoEmptyCheck ==
    /\ phase = "mounted"
    /\ IF ~Connected
       THEN /\ lastOp' = "sendNotConnected"
            /\ UNCHANGED <<messages, sockets, input>>
       ELSE /\ SentCount(sockets) < MaxSends
            /\ messages' = Append(messages, UserMsg(Trim(input)))
            /\ sockets' = [sockets EXCEPT ![socketRef].sent = Append(@, Trim(input))]
            /\ input' = <<>>
            /\ lastOp' = "sendOk"
    /\ UNCHANGED <<phase, storage, conversationId, socketRef, effectId, cleanupSock,
                   createReqs, historyReqs, framesIn, startId>>

\* variant of sendMessage that echoes the message locally but never transmits it
SendMessageEchoOnly ==
    /\ phase = "mounted"
    /\ IF ~Connected
       THEN /\ lastOp' = "sendNotConnected"
            /\ UNCHANGED <<messages, sockets, input>>
       ELSE LET text == Trim(input)
            IN  IF text = <<>>
                THEN /\ lastOp' = "sendNoop"
                     /\ UNCHANGED <<messages, sockets, input>>
                ELSE /\ Len(messages) < MaxSends + MaxFrames + MaxHist
                     /\ messages' = Append(messages, UserMsg(text))
                     /\ sockets' = sockets
                     /\ input' = <<>>
                     /\ lastOp' = "sendOk"
    /\ UNCHANGED <<phase, storage, conversationId, socketRef, effectId, cleanupSock,
                   createReqs, historyReqs, framesIn, startId>>

\* sendMessage, from the Send button or the Enter key
SendMessage ==
    /\ phase = "mounted"
    /\ IF ~Connected
       THEN /\ lastOp' = "sendNotConnected"
            /\ UNCHANGED <<messages, sockets, input>>
       ELSE LET text == Trim(input)
            IN  IF text = <<>>
                THEN /\ lastOp' = "sendNoop"
                     /\ UNCHANGED <<messages, sockets, input>>
                ELSE /\ SentCount(sockets) < MaxSends
                     /\ messages' = Append(messages, UserMsg(text))
                     /\ sockets' = [sockets EXCEPT ![socketRef].sent = Append(@, text)]
                     /\ input' = <<>>
                     /\ lastOp' = "sendOk"
    /\ UNCHANGED <<phase, storage, conversationId, socketRef, effectId, cleanupSock,
                   createReqs, historyReqs, framesIn, startId>>

\* ------------------------------------------------------------------- Next
Next ==
    \/ Mount
    \/ Rerender
    \/ Unmount
    \/ \E r \in 1..Len(createReqs), newId \in Ids : CreateResponseOk(r, newId)
    \/ \E r \in 1..Len(createReqs) : CreateResponseFail(r)
    \/ \E r \in 1..Len(historyReqs), k \in HistRange : HistoryResponseOk(r, k)
    \/ \E r \in 1..Len(historyReqs) : HistoryResponseFail(r)
    \/ \E i \in 1..Len(sockets) : WsOpen(i)
    \/ \E i \in 1..Len(sockets) : WsClosing(i)
    \/ \E i \in 1..Len(sockets) : WsClosed(i)
    \/ \E i \in 1..Len(sockets), data \in FrameTexts : OnMessage(i, data)
    \/ \E text \in InputTexts : SetInput(text)
    \/ SendMessage

Spec == Init /\ [][Next]_vars


\* ================================================================ claims
\* C1: when the session starts with no cached identifier, exactly one
\* creation request is issued over the whole session; if it succeeds, the
\* returned identifier is the one written to storage, every history fetch and
\* every connection carries it, and once the effects have run with it a
\* history fetch and a connection for it exist.
C1_SingleCreation ==
    (startId = NULL /\ phase # "init") =>
        /\ Len(createReqs) = 1
        /\ createReqs[1].status = "ok" =>
              /\ storage = [has |-> TRUE, val |-> ToStr(createReqs[1].id)]
              /\ \A r \in 1..Len(historyReqs) : historyReqs[r].id = createReqs[1].id
              /\ \A i \in 1..Len(sockets) : sockets[i].convId = createReqs[1].id
              /\ (effectId # NULL) =>
                    /\ effectId = createReqs[1].id
                    /\ Len(historyReqs) = 1
                    /\ Len(sockets) = 1
        /\ createReqs[1].status # "ok" => (historyReqs = <<>> /\ sockets = <<>>)

\* C1 witness: a created identifier (two digits) was persisted, fetched and connected
C1_Witness ==
    /\ startId = NULL
    /\ createReqs # <<>> /\ createReqs[1].status = "ok" /\ createReqs[1].id = 12
    /\ storage = [has |-> TRUE, val |-> <<"1", "2">>]
    /\ Len(historyReqs) = 1 /\ historyReqs[1].id = 12
    /\ Len(sockets) = 1 /\ sockets[1].convId = 12 /\ sockets[1].readyState = "OPEN"

\* C2: when the session starts with a cached identifier in storage, no
\* creation request is ever issued and the resolved identifier is the cached one.
C2_CachedNoCreation ==
    (startId # NULL) =>
        /\ createReqs = <<>>
        /\ phase = "init" => conversationId = NULL
        /\ phase # "init" => conversationId = startId

\* C2 witness: the two-digit cached identifier was restored and is in use
C2_Witness ==
    /\ startId = 12
    /\ phase = "mounted"
    /\ conversationId = 12
    /\ Len(historyReqs) = 1 /\ historyReqs[1].id = 12
    /\ Len(sockets) = 1 /\ sockets[1].convId = 12


\* C3: for any sequence of inbound frames delivered in order, under any
\* interleaving with the history response and user dispatches, the Message
\* Log contains a bot message without id for every one of those frames, in
\* the same relative order.
C3_EveryFrameInLog ==
    (phase = "mounted") =>
        LET live == SelectSeq(messages, LAMBDA m : m.sender = "bot" /\ "id" \notin DOMAIN m)
        IN  /\ Len(live) = Len(framesIn)
            /\ \A i \in 1..Len(framesIn) : live[i].content = framesIn[i]

\* C4: an optimistic local entry is never retracted: the user messages
\* without id that are in the log before a step are still in the log, in the
\* same order, after it.
C4_OptimisticNeverRetracted ==
    [][LET mine(log) == SelectSeq(log, LAMBDA m : m.sender = "user" /\ "id" \notin DOMAIN m)
       IN  /\ Len(mine(messages)) <= Len(mine(messages'))
           /\ SubSeq(mine(messages'), 1, Len(mine(messages))) = mine(messages)]_vars

\* C5: once the history response has been applied, every step leaves the log
\* unchanged or appends exactly one message at its end.
C5_AppendOnlyAfterHistory ==
    [][(\E r \in 1..Len(historyReqs) : historyReqs[r].status = "ok") =>
          \/ messages' = messages
          \/ /\ Len(messages') = Len(messages) + 1
             /\ SubSeq(messages', 1, Len(messages)) = messages]_vars

\* C5 witness: a two-record history was applied, then a dispatch and an
\* inbound frame were appended after it
C5_Witness ==
    /\ phase = "mounted"
    /\ Len(historyReqs) = 1 /\ historyReqs[1].status = "ok" /\ Len(historyReqs[1].msgs) = 2
    /\ Len(messages) = 4
    /\ messages[1].id = 1 /\ messages[2].id = 2
    /\ messages[3] = [sender |-> "user", content |-> <<"a", " ", "b">>]
    /\ messages[4] = [sender |-> "bot", content |-> <<" ", "y">>]

\* C6: a dispatch of text whose trimmed form is non-empty while the connection
\* is Open appends exactly one message {sender: user, content: trimmed text,
\* no id} at the end of the log, transmits exactly one frame with the trimmed
\* text on the connection and clears the input buffer.
C6_DispatchOpen ==
    [][(/\ lastOp' # "other"
        /\ socketRef # NULL /\ sockets[socketRef].readyState = "OPEN"
        /\ \E i \in 1..Len(input) : input[i] \notin WhiteSpace) =>
          LET new == messages'[Len(messages')]
              t == new.content
              lead == CHOOSE a \in 0..Len(input) :
                         /\ \A i \in 1..a : input[i] \in WhiteSpace
                         /\ a < Len(input) => input[a + 1] \notin WhiteSpace
          IN  /\ lastOp' = "sendOk"
              /\ Len(messages') = Len(messages) + 1
              /\ SubSeq(messages', 1, Len(messages)) = messages
              /\ DOMAIN new = {"sender", "content"}
              /\ new.sender = "user"
              /\ t # <<>> /\ t[1] \notin WhiteSpace /\ t[Len(t)] \notin WhiteSpace
              /\ lead + Len(t) <= Len(input)
              /\ t = SubSeq(input, lead + 1, lead + Len(t))
              /\ \A i \in (lead + Len(t) + 1)..Len(input) : input[i] \in WhiteSpace
              /\ sockets' = [sockets EXCEPT ![socketRef].sent = Append(@, t)]
              /\ input' = <<>>]_vars

\* C6 witness: " a b\n" was dispatched on the open connection as "a b"
C6_Witness ==
    /\ lastOp = "sendOk"
    /\ input = <<>>
    /\ socketRef # NULL /\ sockets[socketRef].readyState = "OPEN"
    /\ sockets[socketRef].sent = << <<"a", " ", "b">> >>
    /\ messages # <<>> /\ messages[Len(messages)] = [sender |-> "user", content |-> <<"a", " ", "b">>]

\* C7: a dispatch while the connection is not Open (no socket, Connecting,
\* Closing or Closed) raises NotConnected and changes nothing: the log, the
\* input buffer and the transmitted frames are unchanged, whatever the text.
C7_DispatchNotConnected ==
    [][(/\ lastOp' # "other"
        /\ ~(socketRef # NULL /\ sockets[socketRef].readyState = "OPEN")) =>
          /\ lastOp' = "sendNotConnected"
          /\ messages' = messages
          /\ input' = input
          /\ sockets' = sockets]_vars

\* C7 witness: NotConnected was raised for non-empty text on a socket that is
\* closing, after an earlier dispatch on it went through
C7_Witness ==
    /\ phase = "mounted"
    /\ lastOp = "sendNotConnected"
    /\ socketRef # NULL /\ sockets[socketRef].readyState = "CLOSING"
    /\ Len(sockets[socketRef].sent) = 1
    /\ Len(messages) = 1
    /\ input = <<" ", "a", " ", "b", "\n">>

\* C8: a dispatch of text that is empty after trimming while the connection
\* is Open is a no-op: nothing appended, nothing transmitted, no error, input
\* buffer left as it was.
C8_DispatchEmpty ==
    [][(/\ lastOp' # "other"
        /\ socketRef # NULL /\ sockets[socketRef].readyState = "OPEN"
        /\ \A i \in 1..Len(input) : input[i] \in WhiteSpace) =>
          /\ lastOp' = "sendNoop"
          /\ messages' = messages
          /\ input' = input
          /\ sockets' = sockets]_vars

\* C8 witness: white-space-only text was dispatched on the open connection
C8_Witness ==
    /\ lastOp = "sendNoop"
    /\ input = <<" ", "\t">>
    /\ socketRef # NULL /\ sockets[socketRef].readyState = "OPEN"

\* C9: at most one connection of the view is live (Connecting or Open) at any
\* instant; every connection but the newest has been closed, a connection is
\* created only for a present identifier, a live one is bound to the
\* identifier the effects ran with, and none is live once the view is dismissed.
C9_AtMostOneLive ==
    LET live == {i \in 1..Len(sockets) : sockets[i].readyState \in {"CONNECTING", "OPEN"}}
    IN  /\ Cardinality(live) <= 1
        /\ \A i \in live : i = Len(sockets) /\ sockets[i].convId = effectId
        /\ \A i \in 1..Len(sockets) : sockets[i].convId # NULL
        /\ effectId = NULL => sockets = <<>>
        /\ phase = "unmounted" => live = {}

\* C9 witness: the view was dismissed while its connection was open, and the
\* connection is closing
C9_Witness ==
    /\ phase = "unmounted"
    /\ Len(sockets) = 1 /\ sockets[1].readyState = "CLOSING"
    /\ sockets[1].sent # <<>>

\* C10: when a history response is applied, the log becomes exactly the
\* fetched sequence in server order: id and content kept, sender user only for
\* the literal "user" and bot otherwise; what was in the log before is gone.
C10_HistoryReplaces ==
    [][\A r \in 1..Len(historyReqs) :
          (/\ phase = "mounted"
           /\ historyReqs[r].status = "pending"
           /\ historyReqs'[r].status = "ok") =>
             LET body == historyReqs'[r].msgs
             IN  /\ Len(messages') = Len(body)
                 /\ \A i \in 1..Len(body) :
                       /\ DOMAIN messages'[i] = {"id", "sender", "content"}
                       /\ messages'[i].id = body[i].id
                       /\ messages'[i].content = body[i].content
                       /\ body[i].sender = "user" => messages'[i].sender = "user"
                       /\ body[i].sender # "user" => messages'[i].sender = "bot"]_vars

\* C10 witness: a two-record history (senders "user" and "assistant") replaced
\* a log that held an inbound frame and a dispatched message
C10_Witness ==
    /\ phase = "mounted"
    /\ Len(historyReqs) = 1 /\ historyReqs[1].status = "ok"
    /\ framesIn # <<>>
    /\ socketRef # NULL /\ sockets[socketRef].sent # <<>>
    /\ messages = << [id |-> 1, sender |-> "user", content |-> <<"h", "i">>],
                     [id |-> 2, sender |-> "bot", content |-> <<"o", "k">>] >>


\* C11: the local echo and the transmitted frame are never out of sync: a
\* step appends a user message without id to the log exactly when it
\* transmits one frame, that frame carries the same text, and no step
\* transmits more than one frame or takes a transmitted frame back.
C11_EchoAndTransmitTogether ==
    [][LET appended ==
               /\ Len(messages') = Len(messages) + 1
               /\ SubSeq(messages', 1, Len(messages)) = messages
               /\ messages'[Len(messages')].sender = "user"
               /\ "id" \notin DOMAIN messages'[Len(messages')]
           grown == {i \in 1..Len(sockets) : sockets'[i].sent # sockets[i].sent}
       IN  /\ Len(sockets') >= Len(sockets)
           /\ \A i \in (Len(sockets) + 1)..Len(sockets') : sockets'[i].sent = <<>>
           /\ appended <=> (grown # {})
           /\ appended =>
                 /\ Cardinality(grown) = 1
                 /\ \A i \in grown :
                       sockets'[i].sent = Append(sockets[i].sent, messages'[Len(messages')].content)]_vars

\* C11 witness: two dispatches went through, two frames were transmitted
C11_Witness ==
    /\ phase = "mounted"
    /\ lastOp = "sendOk"
    /\ socketRef # NULL /\ Len(sockets[socketRef].sent) = 2
    /\ Len(SelectSeq(messages, LAMBDA m : m.sender = "user" /\ "id" \notin DOMAIN m)) = 2


\* C12: the history fetch is issued exactly once per resolved identifier: no
\* request exists while no identifier is resolved, at most one request exists
\* and it carries the resolved identifier, exactly one exists once the
\* effects have run with the identifier, and no step in which the identifier
\* stays the same issues a second one.
C12_HistoryFetchedOnce ==
    /\ [](/\ conversationId = NULL => historyReqs = <<>>
          /\ Len(historyReqs) <= 1
          /\ \A r \in 1..Len(historyReqs) : historyReqs[r].id = conversationId
          /\ (phase = "mounted" /\ conversationId # NULL /\ effectId = conversationId)
                => Len(historyReqs) = 1)
    /\ [][(historyReqs # <<>> /\ conversationId' = conversationId)
             => Len(historyReqs') = Len(historyReqs)]_vars

\* C12 witness: after the history response, a dispatch and the loss of the
\* connection, still one history request has been issued
C12_Witness ==
    /\ phase = "mounted"
    /\ Len(historyReqs) = 1 /\ historyReqs[1].status = "ok" /\ historyReqs[1].id = conversationId
    /\ socketRef # NULL /\ sockets[socketRef].readyState = "CLOSED"
    /\ sockets[socketRef].sent # <<>>
    /\ framesIn # <<>>


C14_HistoryFailureKeepsLog ==
    [][/\ \A r \in 1..Len(historyReqs) :
             (historyReqs[r].status = "pending" /\ historyReqs'[r].status = "failed") =>
                 /\ messages' = messages
                 /\ sockets' = sockets
                 /\ socketRef' = socketRef
                 /\ Len(historyReqs') = Len(historyReqs)
       /\ (\E r \in 1..Len(historyReqs) : historyReqs[r].status = "failed") =>
             /\ Len(historyReqs') = Len(historyReqs)
             /\ \A r \in 1..Len(historyReqs) : historyReqs'[r] = historyReqs[r]
             /\ (phase = "mounted" /\ framesIn' # framesIn) =>
                   messages' = Append(messages, [sender |-> "bot", content |-> framesIn'[Len(framesIn')]])
             /\ lastOp' = "sendOk" =>
                   /\ Len(messages') = Len(messages) + 1
                   /\ SubSeq(messages', 1, Len(messages)) = messages
                   /\ messages'[Len(messages')].sender = "user"
             /\ (framesIn' = framesIn /\ lastOp' # "sendOk") => messages' = messages]_vars

\* C14 witness: the history fetch failed with a frame and a dispatch already
\* in the log, and a further frame and dispatch were appended afterwards
C14_Witness ==
    /\ phase = "mounted"
    /\ Len(historyReqs) = 1 /\ historyReqs[1].status = "failed"
    /\ socketRef # NULL /\ sockets[socketRef].readyState = "OPEN"
    /\ Len(messages) = 4
    /\ messages[1].sender = "bot" /\ messages[2].sender = "user"
    /\ messages[3].sender = "user" /\ messages[4].sender = "bot"


\* C15: the Message Log is initialized from history before the connection
\* for that identifier opens and before any inbound frame or user dispatch is
\* appended: whenever a connection has opened, a frame has arrived or a frame
\* has been transmitted, the history response has been applied.
C15_HistoryBeforeLive ==
    (\/ \E i \in 1..Len(sockets) : sockets[i].readyState = "OPEN" \/ sockets[i].sent # <<>>
     \/ framesIn # <<>>
     \/ \E j \in 1..Len(messages) : "id" \notin DOMAIN messages[j])
        => \E r \in 1..Len(historyReqs) : historyReqs[r].status = "ok"


\* C16: no automatic reconnect: once a connection of the mounted view is
\* Closed, no step with the same identifier creates a connection: the step
\* that closes it and every later step leave the number of connections and
\* the socket reference as they were and no connection live, and a dispatch
\* raises NotConnected and transmits nothing.
C16_NoReconnect ==
    [][(/\ phase' = "mounted"
        /\ \E i \in 1..Len(sockets') : sockets'[i].readyState = "CLOSED"
        /\ conversationId' = conversationId) =>
          /\ Len(sockets') = Len(sockets)
          /\ socketRef' = socketRef
          /\ \A i \in 1..Len(sockets') : sockets'[i].readyState \notin {"CONNECTING", "OPEN"}
          /\ \A i \in 1..Len(sockets') : sockets'[i].sent = sockets[i].sent
          /\ lastOp' # "other" => (lastOp' = "sendNotConnected" /\ messages' = messages)]_vars

\* C16 witness: the connection was lost after a dispatch and a frame, and a
\* later dispatch of non-blank text raised NotConnected
C16_Witness ==
    /\ phase = "mounted"
    /\ Len(sockets) = 1 /\ socketRef = 1 /\ sockets[1].readyState = "CLOSED"
    /\ Len(sockets[1].sent) = 1
    /\ Len(framesIn) = 1
    /\ lastOp = "sendNotConnected"
    /\ input = <<" ", "a", " ", "b", "\n">>


\* C17: the conversation identifier is immutable once obtained: a step that
\* starts with a non-null identifier ends with the same identifier.
C17_IdentifierImmutable ==
    [][conversationId # NULL => conversationId' = conversationId]_vars

\* C17 witness: a created identifier is still the resolved one after the
\* history response, a dispatch and the dismissal of the view
C17_Witness ==
    /\ startId = NULL
    /\ phase = "unmounted"
    /\ conversationId = 12
    /\ createReqs # <<>> /\ createReqs[1].id = 12
    /\ historyReqs # <<>> /\ historyReqs[1].status = "ok"
    /\ sockets # <<>> /\ sockets[1].sent # <<>>

\* C18: the storage write happens before the identifier is exposed: whenever
\* the identifier is resolved, the persisted entry holds the decimal string of
\* that identifier, and so it does for the identifier of every history fetch
\* and of every connection.
C18_PersistedBeforeExposed ==
    /\ conversationId # NULL =>
          /\ storage.has
          /\ storage.val = ToStr(conversationId)
    /\ \A r \in 1..Len(historyReqs) : storage.has /\ storage.val = ToStr(historyReqs[r].id)
    /\ \A i \in 1..Len(sockets) : storage.has /\ storage.val = ToStr(sockets[i].convId)

\* C18 witness: the created identifier 0 is resolved before the effects ran
\* with it, and storage already holds "0"
C18_Witness ==
    /\ startId = NULL
    /\ phase = "mounted"
    /\ conversationId = 0
    /\ effectId = NULL
    /\ historyReqs = <<>> /\ sockets = <<>>
    /\ storage = [has |-> TRUE, val |-> <<"0">>]


\* C19: the Message Log always has the shape history prefix followed by live
\* suffix: every message that carries an id precedes every message without
\* one.
C19_HistoryPrefixLiveSuffix ==
    \A i \in 1..Len(messages), j \in 1..Len(messages) :
        (i < j /\ "id" \notin DOMAIN messages[i]) => "id" \notin DOMAIN messages[j]

\* C19 witness: a late history response replaced a live message, and a frame
\* was appended after the two history records
C19_Witness ==
    /\ phase = "mounted"
    /\ Len(framesIn) = 2
    /\ Len(messages) = 3
    /\ "id" \in DOMAIN messages[1] /\ "id" \in DOMAIN messages[2]
    /\ messages[3] = [sender |-> "bot", content |-> framesIn[2]]

\* C20: the dispatcher transmits only on the most recently created
\* connection, which is the one the socket reference names, is Open, has not
\* been torn down and is bound to the current identifier; a connection of a
\* dismissed view never transmits.
C20_TransmitOnCurrentOnly ==
    [][\A i \in 1..Len(sockets) :
          (sockets'[i].sent # sockets[i].sent) =>
              /\ phase = "mounted"
              /\ i = Len(sockets)
              /\ i = socketRef
              /\ i = cleanupSock
              /\ sockets[i].readyState = "OPEN"
              /\ sockets[i].convId = conversationId
              /\ sockets[i].convId = effectId]_vars

\* C20 witness: the view was dismissed after a transmitted frame; the socket
\* reference still names the closed socket
C20_Witness ==
    /\ phase = "unmounted"
    /\ socketRef = 1 /\ Len(sockets) = 1
    /\ sockets[1].readyState = "CLOSED"
    /\ Len(sockets[1].sent) = 2
    /\ cleanupSock = NULL

====
